---- MODULE Spec2Model ----
(***************************************************************************)
(* The hierarchical logger of packages/backend (class Logger): loggers     *)
(* chained by createSubLogger, the five emission methods, the recursive    *)
(* delegation of log() to the root, the root's formatting and console      *)
(* output, and the un-awaited asynchronous write to Cloud Logging.         *)
(*                                                                         *)
(* A JavaScript string is a sequence of tokens (TLA+ strings); the ANSI    *)
(* escape codes chalk adds are tokens of their own, so that stripAnsi is   *)
(* a real conversion.  An optional value (undefined / null) is the empty   *)
(* sequence None, a present one the one-element sequence Some(v).          *)
(***************************************************************************)
EXTENDS Integers, Sequences, FiniteSets, TLC

\* Bounds of the model.
MaxLoggers == 3    \* loggers constructed in one behaviour (the root included)
MaxCalls == 1      \* emission calls made in one behaviour of Spec and SpecGates
MaxBurst == 2      \* emission calls made in one behaviour of SpecAsync

VARIABLES
    envOption,   \* process-wide options (env.js) and NODE_ENV / cluster role
    loggers,     \* the Logger objects, in order of construction
    calls,       \* history: the emission calls made so far, in call order
    console,     \* what console.log has printed, in order
    sinkCalls,   \* the invocations of writeCloudLogging, in order
    inflight,    \* promises of log.write(entry) not settled yet
    settled      \* the settled promises, in the order they settled

vars == <<envOption, loggers, calls, console, sinkCalls, inflight, settled>>

----------------------------------------------------------------------------
\* Optional values.
None == <<>>
Some(v) == <<v>>
IsSome(o) == Len(o) > 0
Get(o) == o[1]

----------------------------------------------------------------------------
\* Strings, chalk and strip-ansi.

AnsiCodes ==
    { "ESC[1m", "ESC[22m", "ESC[31m", "ESC[32m", "ESC[33m", "ESC[34m",
      "ESC[37m", "ESC[90m", "ESC[39m", "ESC[41m", "ESC[42m", "ESC[49m",
      "ESC[38;2;0;128;0m", "ESC[38;2;0;0;255m", "ESC[38;2;255;0;0m" }

Styled(open, s, close) == <<open>> \o s \o <<close>>

chalkBold(s) == Styled("ESC[1m", s, "ESC[22m")
chalkRed(s) == Styled("ESC[31m", s, "ESC[39m")
chalkGreen(s) == Styled("ESC[32m", s, "ESC[39m")
chalkYellow(s) == Styled("ESC[33m", s, "ESC[39m")
chalkBlue(s) == Styled("ESC[34m", s, "ESC[39m")
chalkWhite(s) == Styled("ESC[37m", s, "ESC[39m")
chalkGray(s) == Styled("ESC[90m", s, "ESC[39m")
chalkBgRedWhite(s) == Styled("ESC[41m", chalkWhite(s), "ESC[49m")
chalkBgGreenWhite(s) == Styled("ESC[42m", chalkWhite(s), "ESC[49m")

\* chalk.rgb(...convertColor.keyword.rgb(color))
chalkRgbKeyword(color, s) ==
    Styled(CASE color = "green" -> "ESC[38;2;0;128;0m"
             [] color = "blue" -> "ESC[38;2;0;0;255m"
             [] OTHER -> "ESC[38;2;255;0;0m",
           s, "ESC[39m")

stripAnsi(s) == SelectSeq(s, LAMBDA t : t \notin AnsiCodes)

RECURSIVE Join(_, _)
Join(parts, sep) ==
    IF Len(parts) = 0 THEN <<>>
    ELSE IF Len(parts) = 1 THEN parts[1]
    ELSE parts[1] \o <<sep>> \o Join(Tail(parts), sep)

\* s contains t as a contiguous substring
Contains(s, t) ==
    \E i \in 0..(Len(s) - Len(t)) : SubSeq(s, i + 1, i + Len(t)) = t

\* date-fns format(timestamp, 'HH:mm:ss'); a timestamp is a tick count
dateFormat(timestamp) ==
    CASE timestamp = 1 -> <<"00:00:01">>
      [] timestamp = 2 -> <<"00:00:02">>
      [] timestamp = 3 -> <<"00:00:03">>
      [] OTHER -> <<"00:00:04">>

toUpperCase(lv) ==
    CASE lv = "error" -> "ERROR"
      [] lv = "warning" -> "WARNING"
      [] lv = "success" -> "SUCCESS"
      [] lv = "debug" -> "DEBUG"
      [] OTHER -> "INFO"

----------------------------------------------------------------------------
\* Values handed to the logger.

\* the first argument of an emission method: a string, an Error, or another
\* object (with optional message and name properties)
StringX(s) == [kind |-> "string", str |-> s, message |-> None, name |-> None]
ErrorX(m) == [kind |-> "Error", str |-> <<>>, message |-> Some(m), name |-> Some(<<"Error">>)]
ObjectX(m, n) == [kind |-> "object", str |-> <<"[object Object]">>, message |-> m, name |-> n]

\* Error.prototype.toString
ErrorToString(x) ==
    IF Get(x.message) = <<>> THEN Get(x.name)
    ELSE Get(x.name) \o <<": ">> \o Get(x.message)

\* `${x}`
ToStr(x) == IF x.kind = "Error" THEN ErrorToString(x) ELSE x.str

\* a data bag (Record<string, any>): its properties in insertion order
Prop(k, v) == [key |-> k, val |-> v]
HasKey(bag, k) == \E i \in 1..Len(bag) : bag[i].key = k
\* bag[k] = v
SetProp(bag, k, v) ==
    IF HasKey(bag, k)
    THEN [i \in 1..Len(bag) |-> IF bag[i].key = k THEN Prop(k, v) ELSE bag[i]]
    ELSE Append(bag, Prop(k, v))
GetProp(bag, k) == bag[CHOOSE i \in 1..Len(bag) : bag[i].key = k].val

\* util.inspect(data, { depth: null })
InspectValue(v) ==
    IF v.kind = "Error" THEN <<"[">> \o ErrorToString(v) \o <<"]">>
    ELSE IF v.kind = "string" THEN <<"'">> \o v.str \o <<"'">>
    ELSE <<"{...}">>
inspect(bag) ==
    IF Len(bag) = 0 THEN <<"{}">>
    ELSE <<"{ ">>
         \o Join([i \in 1..Len(bag) |-> <<bag[i].key, ": ">> \o InspectValue(bag[i].val)], ", ")
         \o <<" }">>

----------------------------------------------------------------------------
\* Inputs.

\* the context given to the i-th logger constructed
ContextInputs ==
    << [name |-> "A", color |-> None],
       [name |-> "B", color |-> Some("green")],
       [name |-> "C", color |-> Some("blue")],
       [name |-> "D", color |-> None],
       [name |-> "E", color |-> Some("red")] >>

ClConfigInputs ==
    { None,
      Some([projectId |-> Some("proj"), saKeyPath |-> None, logName |-> None]),
      Some([projectId |-> Some("proj"), saKeyPath |-> Some("key.json"), logName |-> None]) }

MessageInputs == { <<"x">> }
ErrorInputs == { StringX(<<"boom">>), ErrorX(<<"boom">>), ObjectX(None, Some(<<"Oops">>)) }
DataInputs == { None, Some(<<Prop("id", StringX(<<"7">>))>>) }

\* the arguments (x, data, important) of a call of error(), and those
\* (message, data, important) of a call of warn(), succ(), debug() or info()
ErrorArgInputs ==
    [x : ErrorInputs, data : DataInputs, important : {FALSE}]
    \cup [x : {ErrorX(<<"boom">>)}, data : {None}, important : {TRUE}]
MessageArgInputs ==
    [message : MessageInputs, data : DataInputs, important : {FALSE}]
    \cup [message : MessageInputs, data : {None}, important : {TRUE}]
PlainArgInputs ==
    [message : MessageInputs, data : DataInputs, important : {FALSE}]

\* the process-wide options: envOption.quiet, envOption.verbose,
\* envOption.withLogTime, NODE_ENV === 'production', cluster.isPrimary
EnvInputs ==
    [quiet : BOOLEAN, verbose : BOOLEAN, production : BOOLEAN,
     withLogTime : BOOLEAN, isPrimary : BOOLEAN]
\* a primary process in development mode, neither quiet nor verbose
DevEnvInputs ==
    { e \in EnvInputs : ~e.quiet /\ ~e.verbose /\ ~e.production /\ e.isPrimary }

----------------------------------------------------------------------------
\* class Logger

\* new Logger(context, color, store, clConfig)
Logger(context, store, clConfig) ==
    [context |-> context, parentLogger |-> 0, store |-> store, clConfig |-> clConfig]

\* what one call of log() or writeCloudLogging() did
NoEffect == [console |-> <<>>, sink |-> <<>>]

\* (variant: the quiet check left out)
QuietGateOpen(quiet) == FALSE
\* log(): if (envOption.quiet) return
QuietGate(quiet) == quiet

\* log(): if (!this.store) store = false; if (level === 'debug') store = false.
\* The value is handed up the chain and reaches the root, which never reads it.
EffectiveStore(thisStore, level, store) ==
    IF ~thisStore THEN FALSE
    ELSE IF level = "debug" THEN FALSE
    ELSE store

\* (variant: subContexts.concat([this.context]))
ConcatContextsReversed(context, subContexts) == subContexts \o <<context>>
\* (variant: [this.context], the contexts gathered so far lost)
ConcatContextsDropped(context, subContexts) == <<context>>
\* log(): [this.context].concat(subContexts)
ConcatContexts(context, subContexts) == <<context>> \o subContexts

\* the level tag l
LevelTag(level, important) ==
    CASE level = "error" ->
            IF important THEN chalkBgRedWhite(<<"ERR ">>) ELSE chalkRed(<<"ERR ">>)
      [] level = "warning" -> chalkYellow(<<"WARN">>)
      [] level = "success" ->
            IF important THEN chalkBgGreenWhite(<<"DONE">>) ELSE chalkGreen(<<"DONE">>)
      [] level = "debug" -> chalkGray(<<"VERB">>)
      [] OTHER -> chalkBlue(<<"INFO">>)

\* the coloured context names
ContextLabels(contexts) ==
    [i \in 1..Len(contexts) |->
        IF IsSome(contexts[i].color)
        THEN chalkRgbKeyword(Get(contexts[i].color), <<contexts[i].name>>)
        ELSE chalkWhite(<<contexts[i].name>>)]

\* the coloured message m
LevelMessage(level, message) ==
    CASE level = "error" -> chalkRed(message)
      [] level = "warning" -> chalkYellow(message)
      [] level = "success" -> chalkGreen(message)
      [] level = "debug" -> chalkGray(message)
      [] OTHER -> message

\* cluster.isPrimary ? '*' : cluster.worker!.id
Worker == IF envOption.isPrimary THEN "*" ELSE "1"

\* the composed line `log`
ComposeLine(level, message, important, contexts, timestamp) ==
    LET line == LevelTag(level, important) \o <<" ", Worker, "\t", "[">>
                \o Join(ContextLabels(contexts), " ")
                \o <<"]", "\t">> \o LevelMessage(level, message)
    IN IF envOption.withLogTime
       THEN chalkGray(dateFormat(timestamp)) \o <<" ">> \o line
       ELSE line

\* (variant: the data forwarded whatever the level)
SinkDataAlways(level, data) == data
\* log(): the data handed to writeCloudLogging
SinkData(level, data) == IF level = "error" /\ IsSome(data) THEN data ELSE None

\* (variant: name and color exchanged)
LabelsSwapped(context) ==
    [name |-> IF IsSome(context.color) THEN Get(context.color) ELSE "undefined",
     color |-> context.name]
\* writeCloudLogging(): metadata.labels, `${this.context.name}` and
\* `${this.context.color}`
Labels(context) ==
    [name |-> context.name,
     color |-> IF IsSome(context.color) THEN Get(context.color) ELSE "undefined"]

\* writeCloudLogging(): the synchronous part, up to `await log.write(entry)`.
\* None: returned early, nothing is written; Some(entry): log.write(entry)
\* has been called.
writeCloudLogging(this, level, message, time, data) ==
    LET clConfig == loggers[this].clConfig IN
    IF ~IsSome(clConfig) THEN None
    ELSE IF ~IsSome(Get(clConfig).projectId) \/ ~IsSome(Get(clConfig).saKeyPath) THEN None
    ELSE LET lv == IF level = "success" THEN "info" ELSE level
             logName == IF IsSome(Get(clConfig).logName)
                        THEN Get(Get(clConfig).logName) ELSE "cherrypick"
             logMessage == stripAnsi(message)
             metadata == [severity |-> toUpperCase(lv),
                          resource |-> [type |-> "global", timestamp |-> time],
                          labels |-> Labels(loggers[this].context)]
             dataString == IF IsSome(data) THEN <<"\n">> \o inspect(Get(data)) ELSE <<>>
         IN Some([logName |-> logName, metadata |-> metadata,
                  body |-> logMessage \o dataString])

\* (variant: the write awaited by the caller)
AwaitPromise(p) == {p}
\* log(): what becomes of the promise writeCloudLogging returns, as the set of
\* promises the caller waits on.  The call is a statement expression: the
\* promise is dropped.
DiscardPromise(p) == {}

\* log()
RECURSIVE log(_, _, _, _, _, _, _, _)
log(this, level, message, data, important, subContexts, store, timestamp) ==
    IF QuietGate(envOption.quiet) THEN NoEffect
    ELSE
    LET store2 == EffectiveStore(loggers[this].store, level, store) IN
    IF loggers[this].parentLogger # 0
    THEN log(loggers[this].parentLogger, level, message, data, important,
             ConcatContexts(loggers[this].context, subContexts), store2, timestamp)
    ELSE
    LET contexts == ConcatContexts(loggers[this].context, subContexts)
        line == ComposeLine(level, message, important, contexts, timestamp)
        printed == [by |-> this, kind |-> "line",
                    text |-> IF important THEN chalkBold(line) ELSE line,
                    data |-> None]
        dumped == [by |-> this, kind |-> "data", text |-> <<>>,
                   data |-> data]
        sinkData == SinkData(level, data)
        sinkCall == [by |-> this, level |-> level, message |-> line,
                     time |-> timestamp, data |-> sinkData, store |-> store2,
                     entry |-> writeCloudLogging(this, level, line, timestamp, sinkData)]
    IN [console |-> IF level = "error" /\ IsSome(data)
                    THEN <<printed, dumped>> ELSE <<printed>>,
        sink |-> <<sinkCall>>]

\* (variant: the bag built for every x)
ErrorArgsAlwaysBag(x, data) ==
    [message |-> ToStr(x),
     data |-> Some(SetProp(IF IsSome(data) THEN Get(data) ELSE <<>>, "e", x))]
\* error(): the message and the data handed to log()
ErrorArgs(x, data) ==
    IF x.kind = "Error"
    THEN [message |-> ErrorToString(x),
          data |-> Some(SetProp(IF IsSome(data) THEN Get(data) ELSE <<>>, "e", x))]
    ELSE IF x.kind = "object"
    THEN [message |-> IF IsSome(x.message) THEN Get(x.message)
                      ELSE IF IsSome(x.name) THEN Get(x.name)
                      ELSE ToStr(x),
          data |-> data]
    ELSE [message |-> ToStr(x), data |-> data]

\* (variant: the check left out)
DebugGateAlways(production, verbose) == TRUE
\* debug(): process.env.NODE_ENV !== 'production' || envOption.verbose
DebugGate(production, verbose) == ~production \/ verbose

----------------------------------------------------------------------------
\* The state machine.

\* the process has started with the options e and has constructed the root
\* logger
InitEnv(envs) ==
    /\ envOption \in envs
    /\ \E store \in BOOLEAN, clConfig \in ClConfigInputs :
          loggers = <<Logger(ContextInputs[1], store, clConfig)>>
    /\ calls = <<>>
    /\ console = <<>>
    /\ sinkCalls = <<>>
    /\ inflight = {}
    /\ settled = <<>>

Init == InitEnv(DevEnvInputs)
InitAny == InitEnv(EnvInputs)

\* createSubLogger(context, color, store) on logger `this`
createSubLogger(this, store) ==
    /\ loggers' = Append(loggers,
          [Logger(ContextInputs[Len(loggers) + 1], store, None)
              EXCEPT !.parentLogger = this])
    /\ UNCHANGED <<envOption, calls, console, sinkCalls, inflight, settled>>

\* One emission call `method(x, data, important)` on logger `this`, whose
\* synchronous run had the effect eff.
Emit(this, method, x, data, important, eff) ==
    LET id == Len(calls) + 1
        written == { i \in 1..Len(eff.sink) : IsSome(eff.sink[i].entry) }
    IN
    /\ calls' = Append(calls,
          [logger |-> this, method |-> method, x |-> x, data |-> data,
           important |-> important,
           awaited |-> UNION { DiscardPromise(id) : i \in written }])
    /\ console' = console \o [i \in 1..Len(eff.console) |->
                                [call |-> id] @@ eff.console[i]]
    /\ sinkCalls' = sinkCalls \o [i \in 1..Len(eff.sink) |->
                                    [call |-> id] @@ eff.sink[i]]
    /\ inflight' = inflight \cup (IF written = {} THEN {} ELSE {id})
    /\ UNCHANGED <<envOption, loggers, settled>>

Now == Len(calls) + 1

error(this, x, data, important) ==
    LET args == ErrorArgs(x, data) IN
       Emit(this, "error", x, data, important,
            log(this, "error", args.message, args.data, important, <<>>, TRUE, Now))

warn(this, message, data, important) ==
    Emit(this, "warn", StringX(message), data, important,
            log(this, "warning", message, data, important, <<>>, TRUE, Now))

succ(this, message, data, important) ==
    Emit(this, "succ", StringX(message), data, important,
            log(this, "success", message, data, important, <<>>, TRUE, Now))

debug(this, message, data, important) ==
    Emit(this, "debug", StringX(message), data, important,
            IF DebugGate(envOption.production, envOption.verbose)
            THEN log(this, "debug", message, data, important, <<>>, TRUE, Now)
            ELSE NoEffect)

info(this, message, data, important) ==
    Emit(this, "info", StringX(message), data, important,
            log(this, "info", message, data, important, <<>>, TRUE, Now))

\* `await log.write(entry)` completes: the promise of writeCloudLogging fulfils
WriteFulfilled(id) ==
    /\ id \in inflight
    /\ inflight' = inflight \ {id}
    /\ settled' = Append(settled, [call |-> id, outcome |-> "fulfilled"])
    /\ UNCHANGED <<envOption, loggers, calls, console, sinkCalls>>

\* `await log.write(entry)` throws: the promise of writeCloudLogging rejects,
\* and nothing handles the rejection (no caller holds the promise)
WriteRejected(id) ==
    /\ id \in inflight
    /\ inflight' = inflight \ {id}
    /\ settled' = Append(settled, [call |-> id, outcome |-> "rejected"])
    /\ UNCHANGED <<envOption, loggers, calls, console, sinkCalls>>

\* The synchronous part, in a development process: calls of every method,
\* with and without data, on any logger of the chain.  Sub-loggers are created
\* on the newest logger, so that the loggers form one chain: an emission only
\* ever visits the path from its logger to the root.  The writes handed to the
\* sink stay in flight here: their settling (WriteFulfilled, WriteRejected)
\* changes inflight and settled alone and is followed in SpecAsync.
Next ==
    \/ \E store \in BOOLEAN :
          Len(loggers) < MaxLoggers /\ createSubLogger(Len(loggers), store)
    \/ \E this \in 1..Len(loggers), a \in ErrorArgInputs :
          Len(calls) < MaxCalls /\ error(this, a.x, a.data, a.important)
    \/ \E this \in 1..Len(loggers), a \in PlainArgInputs :
          Len(calls) < MaxCalls /\ warn(this, a.message, a.data, a.important)
    \/ \E this \in 1..Len(loggers), a \in MessageArgInputs :
          Len(calls) < MaxCalls /\ succ(this, a.message, a.data, a.important)
    \/ \E this \in 1..Len(loggers), a \in PlainArgInputs :
          Len(calls) < MaxCalls /\ debug(this, a.message, a.data, a.important)
    \/ \E this \in 1..Len(loggers), a \in MessageArgInputs :
          Len(calls) < MaxCalls /\ info(this, a.message, a.data, a.important)

Spec == Init /\ [][Next]_vars

\* The synchronous part under every combination of the process-wide options:
\* plain calls of each method on any logger of the chain.
NextGates ==
    \/ \E store \in BOOLEAN :
          Len(loggers) < MaxLoggers /\ createSubLogger(Len(loggers), store)
    \/ \E this \in 1..Len(loggers), message \in MessageInputs :
          Len(calls) < MaxCalls /\ error(this, StringX(message), None, FALSE)
    \/ \E this \in 1..Len(loggers), message \in MessageInputs :
          Len(calls) < MaxCalls /\ warn(this, message, None, FALSE)
    \/ \E this \in 1..Len(loggers), message \in MessageInputs :
          Len(calls) < MaxCalls /\ succ(this, message, None, FALSE)
    \/ \E this \in 1..Len(loggers), message \in MessageInputs :
          Len(calls) < MaxCalls /\ debug(this, message, None, FALSE)
    \/ \E this \in 1..Len(loggers), message \in MessageInputs :
          Len(calls) < MaxCalls /\ info(this, message, None, FALSE)

SpecGates == InitAny /\ [][NextGates]_vars

\* The asynchronous part: a burst of emissions on the root logger, their
\* writes settling in any order, under every combination of the options.
NextAsync ==
    \/ \E x \in ErrorInputs :
          Len(calls) < MaxBurst /\ error(1, x, None, FALSE)
    \/ \E message \in MessageInputs :
          Len(calls) < MaxBurst /\ warn(1, message, None, FALSE)
    \/ \E message \in MessageInputs :
          Len(calls) < MaxBurst /\ succ(1, message, None, FALSE)
    \/ \E message \in MessageInputs :
          Len(calls) < MaxBurst /\ debug(1, message, None, FALSE)
    \/ \E message \in MessageInputs :
          Len(calls) < MaxBurst /\ info(1, message, None, FALSE)
    \/ \E id \in inflight : WriteFulfilled(id)
    \/ \E id \in inflight : WriteRejected(id)

SpecAsync == InitAny /\ [][NextAsync]_vars

----------------------------------------------------------------------------
\* Reading the state.

\* the loggers from l up to the root, l first
RECURSIVE Chain(_)
Chain(l) ==
    IF loggers[l].parentLogger = 0 THEN <<l>>
    ELSE <<l>> \o Chain(loggers[l].parentLogger)

Reverse(s) == [i \in 1..Len(s) |-> s[Len(s) + 1 - i]]
ChainNames(l) ==
    LET chain == Chain(l) IN [i \in 1..Len(chain) |-> loggers[chain[i]].context.name]
RECURSIVE RootOf(_)
RootOf(l) ==
    IF loggers[l].parentLogger = 0 THEN l ELSE RootOf(loggers[l].parentLogger)

CallIds == 1..Len(calls)
\* call k was not suppressed by the quiet flag or, for debug, by the
\* production / verbose gate
PassedGates(k) ==
    /\ ~envOption.quiet
    /\ calls[k].method = "debug" => (~envOption.production \/ envOption.verbose)

LinesOf(k) == { i \in 1..Len(console) : console[i].call = k /\ console[i].kind = "line" }
DumpsOf(k) == { i \in 1..Len(console) : console[i].call = k /\ console[i].kind = "data" }
PrintedOf(k) == { i \in 1..Len(console) : console[i].call = k }
SinkCallsOf(k) == { i \in 1..Len(sinkCalls) : sinkCalls[i].call = k }
WritesOf(k) == { i \in SinkCallsOf(k) : IsSome(sinkCalls[i].entry) }

\* the names between the brackets of a printed line, in the order printed
LabelNames(text) ==
    LET open == CHOOSE i \in 1..Len(text) : text[i] = "["
        close == CHOOSE i \in 1..Len(text) : text[i] = "]"
    IN SelectSeq(stripAnsi(SubSeq(text, open + 1, close - 1)), LAMBDA t : t # " ")

\* the text a call was asked to log, x being a string or an Error
MessageOf(x) == IF x.kind = "Error" THEN Get(x.message) ELSE x.str

CompleteConfig(l) ==
    /\ IsSome(loggers[l].clConfig)
    /\ IsSome(Get(loggers[l].clConfig).projectId)
    /\ IsSome(Get(loggers[l].clConfig).saKeyPath)

\* what the caller of call k sees of it: the promises it waits on decide
CallStatus(k) ==
    LET waits == calls[k].awaited IN
    IF \E i \in 1..Len(settled) :
          settled[i].call \in waits /\ settled[i].outcome = "rejected"
    THEN "threw"
    ELSE IF waits \cap inflight # {} THEN "waiting"
    ELSE "returned"

----------------------------------------------------------------------------
\* C1: if some logger on the path from the emitting logger to the root has
\* store = false, the emission writes nothing to the remote sink.
StoreFalseSuppressesSink ==
    \A k \in CallIds :
        LET chain == Chain(calls[k].logger) IN
        (\E i \in 1..Len(chain) : ~loggers[chain[i]].store) => WritesOf(k) = {}

\* C2: one non-suppressed emission on a logger of a chain prints exactly one
\* message line and invokes the sink forwarding exactly once, both done by
\* the root and nothing by a logger that has a parent, and the printed label
\* holds the names of all the loggers of the chain.
OneDispatchAtRoot ==
    \A k \in CallIds : PassedGates(k) =>
        LET root == RootOf(calls[k].logger)
            chainNames == ChainNames(calls[k].logger)
        IN
        /\ Cardinality(LinesOf(k)) = 1
        /\ Cardinality(SinkCallsOf(k)) = 1
        /\ \A i \in PrintedOf(k) : console[i].by = root
        /\ \A i \in SinkCallsOf(k) : sinkCalls[i].by = root
        /\ \A i \in LinesOf(k) :
               LET names == LabelNames(console[i].text) IN
               /\ Len(names) = Len(chainNames)
               /\ \A j \in 1..Len(chainNames) :
                      \E n \in 1..Len(names) : names[n] = chainNames[j]

OneDispatchAtRootWitness ==
    \E k \in CallIds :
        /\ Len(Chain(calls[k].logger)) = 3
        /\ Cardinality(LinesOf(k)) = 1
        /\ Cardinality(SinkCallsOf(k)) = 1

\* C3: while the quiet flag is set, a call of any emission method on a logger
\* at any depth prints nothing and makes no sink call.
QuietSuppressesAll ==
    envOption.quiet =>
        \A k \in CallIds : PrintedOf(k) = {} /\ SinkCallsOf(k) = {}

QuietSuppressesAllWitness ==
    /\ envOption.quiet
    /\ \E k \in CallIds :
          /\ Len(Chain(calls[k].logger)) = 3
          /\ CompleteConfig(RootOf(calls[k].logger))
          /\ calls[k].method = "error"
          /\ PrintedOf(k) = {}

\* C4: debug in production mode without verbose prints nothing and makes no
\* sink call, at any depth; in non-production mode or with verbose set, and
\* quiet unset, the debug line is printed.
DebugGated ==
    \A k \in CallIds : calls[k].method = "debug" =>
        /\ (envOption.production /\ ~envOption.verbose)
              => (PrintedOf(k) = {} /\ SinkCallsOf(k) = {})
        /\ ((~envOption.production \/ envOption.verbose) /\ ~envOption.quiet)
              => \E i \in LinesOf(k) :
                     /\ Contains(stripAnsi(console[i].text), <<"VERB">>)
                     /\ Contains(stripAnsi(console[i].text), MessageOf(calls[k].x))

DebugGatedWitness ==
    \E k \in CallIds :
        /\ calls[k].method = "debug"
        /\ Len(Chain(calls[k].logger)) = 3
        /\ envOption.production /\ ~envOption.verbose /\ ~envOption.quiet
        /\ PrintedOf(k) = {}

\* C5: a debug emission that passes the gate is never written to the remote
\* sink.
DebugNeverStored ==
    \A k \in CallIds : calls[k].method = "debug" => WritesOf(k) = {}

\* C6 as stated: the label lists the emitting logger's name first, then its
\* ancestors up to the root ([C B A]).
LabelLeafFirst ==
    \A k \in CallIds : PassedGates(k) =>
        \A i \in LinesOf(k) :
            LabelNames(console[i].text) = ChainNames(calls[k].logger)

\* C6 as amended: the label lists the root's name first, then the names down
\* to the emitting logger ([A B C]), followed by the message.
LabelRootFirst ==
    \A k \in CallIds : PassedGates(k) =>
        /\ LinesOf(k) # {}
        /\ \A i \in LinesOf(k) :
            /\ LabelNames(console[i].text) = Reverse(ChainNames(calls[k].logger))
            /\ calls[k].x.kind = "string" =>
                  Contains(stripAnsi(console[i].text), calls[k].x.str)

LabelRootFirstWitness ==
    \E k \in CallIds :
        /\ calls[k].method = "info"
        /\ ChainNames(calls[k].logger) = <<"C", "B", "A">>
        /\ \E i \in LinesOf(k) :
              /\ LabelNames(console[i].text) = <<"A", "B", "C">>
              /\ Contains(stripAnsi(console[i].text), <<"x">>)

\* C7: an emission call returns once the console line is printed, without
\* waiting for the sink write; a sink write that fails later changes nothing
\* of the call (its caller sees no error, its line stays printed); console
\* lines appear in call order, whatever the order the writes settle in.
FireAndForget ==
    /\ \A k \in CallIds :
          /\ CallStatus(k) = "returned"
          /\ PassedGates(k) => LinesOf(k) # {}
    /\ \A i, j \in 1..Len(console) : i < j => console[i].call <= console[j].call

FireAndForgetWitness ==
    /\ Len(calls) = 2
    /\ 1 \in inflight
    /\ settled = <<[call |-> 2, outcome |-> "rejected"]>>
    /\ LinesOf(1) # {} /\ LinesOf(2) # {}

\* the label values writeCloudLogging sends for a context
LabelsFor(context) ==
    [name |-> context.name,
     color |-> IF context.color = None THEN "undefined" ELSE context.color[1]]

\* C8 as stated: the labels of every entry written are the name and color of
\* the logger the emission method was called on.
LabelsOfLeaf ==
    \A k \in CallIds : \A i \in WritesOf(k) :
        Get(sinkCalls[i].entry).metadata.labels
            = LabelsFor(loggers[calls[k].logger].context)

\* C8 as amended: the labels of every entry written are the name and color of
\* the root logger of the chain.
LabelsOfRoot ==
    \A k \in CallIds : \A i \in WritesOf(k) :
        Get(sinkCalls[i].entry).metadata.labels
            = LabelsFor(loggers[RootOf(calls[k].logger)].context)

LabelsOfRootWitness ==
    \E k \in CallIds :
        /\ Len(Chain(calls[k].logger)) = 3
        /\ \E i \in WritesOf(k) :
              Get(sinkCalls[i].entry).metadata.labels = [name |-> "A", color |-> "undefined"]

\* the printed line of call k, as plain text
PlainLine(k) == stripAnsi(console[CHOOSE i \in LinesOf(k) : TRUE].text)

\* the data bag log() receives for call k
DataAtLog(k) ==
    IF calls[k].method = "error" /\ calls[k].x.kind = "Error"
    THEN Some(SetProp(IF calls[k].data = None THEN <<>> ELSE calls[k].data[1],
                      "e", calls[k].x))
    ELSE calls[k].data

\* C9 as stated: for error, warning, success and info, the body sent to the
\* sink is the plain console line, followed by a newline and the serialized
\* data if data was supplied (by the caller, or by error() for an Error).
DataAppendedEveryLevel ==
    \A k \in CallIds : calls[k].method \in {"error", "warn", "succ", "info"} =>
        \A i \in WritesOf(k) :
            Get(sinkCalls[i].entry).body =
                IF DataAtLog(k) # None
                THEN PlainLine(k) \o <<"\n">> \o inspect(Get(DataAtLog(k)))
                ELSE PlainLine(k)

\* C9 as amended: for error, the body is the plain console line followed by a
\* newline and the serialized data bag log() received (the caller's, with the
\* Error object added under e by error()), when there is one; for error
\* without a data bag and for every other level, whatever data the caller
\* supplied, the body is the plain console line alone.
DataAppendedForErrorOnly ==
    \A k \in CallIds : \A i \in WritesOf(k) :
        Get(sinkCalls[i].entry).body =
            IF calls[k].method = "error" /\ DataAtLog(k) # None
            THEN PlainLine(k) \o <<"\n">> \o inspect(Get(DataAtLog(k)))
            ELSE PlainLine(k)

DataAppendedForErrorOnlyWitness ==
    \E k \in CallIds :
        /\ calls[k].method = "error"
        /\ calls[k].x.kind = "string"
        /\ calls[k].data # None
        /\ \E i \in WritesOf(k) :
              Contains(Get(sinkCalls[i].entry).body, <<"\n", "{ ", "id", ": ">>)

\* C10: error(x) prints a line containing the message for a string x and for
\* an Error x alike; with an Error x the root receives a data bag holding x
\* under the key e, with a string x and no data from the caller it receives
\* no data bag.
ErrorFormsDataBag ==
    \A k \in CallIds :
        (calls[k].method = "error" /\ ~envOption.quiet
            /\ calls[k].x.kind \in {"string", "Error"}) =>
        /\ \E i \in LinesOf(k) :
              Contains(stripAnsi(console[i].text), MessageOf(calls[k].x))
        /\ calls[k].x.kind = "Error" =>
              /\ DumpsOf(k) # {}
              /\ \A i \in DumpsOf(k) :
                    /\ console[i].data # None
                    /\ HasKey(Get(console[i].data), "e")
                    /\ GetProp(Get(console[i].data), "e") = calls[k].x
              /\ \A i \in SinkCallsOf(k) :
                    /\ sinkCalls[i].data # None
                    /\ HasKey(Get(sinkCalls[i].data), "e")
                    /\ GetProp(Get(sinkCalls[i].data), "e") = calls[k].x
        /\ (calls[k].x.kind = "string" /\ calls[k].data = None) =>
              /\ DumpsOf(k) = {}
              /\ \A i \in SinkCallsOf(k) : sinkCalls[i].data = None

ErrorFormsDataBagWitness ==
    \E k \in CallIds :
        /\ calls[k].method = "error"
        /\ calls[k].x = ErrorX(<<"boom">>)
        /\ calls[k].data = None
        /\ \E i \in DumpsOf(k) : console[i].data = Some(<<Prop("e", ErrorX(<<"boom">>))>>)
        /\ \E i \in LinesOf(k) : Contains(stripAnsi(console[i].text), <<"boom">>)

====
